---- MODULE Spec2Model ----
(***************************************************************************)
(* Model of src/pinloop/pinloop.py: the chromatin-loop contact-probability *)
(* script.  The state is the script's module-level data (the loop catalog  *)
(* chiapet, the pair table pair_info with its Pinloop column) and the      *)
(* locals of the per-chromosome loop; there is one action per statement    *)
(* group of the script and one per iteration of the accumulation loop of   *)
(* p_inloop_dense.                                                         *)
(*                                                                         *)
(* Numbers.  Positions are integers.  An element's center                  *)
(* (ElementStart + ElementEnd) / 2 may be a half-integer, so the model     *)
(* keeps every searched array and every search key doubled; the order of   *)
(* doubled values is the order of the values.  A quotient of np.divide is  *)
(* kept as a fraction in lowest terms [num, den]: IEEE division is         *)
(* correctly rounded, so two quotients of small integers are the same      *)
(* float exactly when they are the same rational.                          *)
(***************************************************************************)
EXTENDS Integers, Sequences, FiniteSets, TLC

\* ------------------------------------------------------------------ bounds

\* Longest generated pair table (rows) and loop catalog (records).
MaxRows == 3
MaxLoops == 2
\* The most genes, and the most elements, of a frame handed to the functions.
MaxFrame == 2
\* The most data rows of a validated file.
MaxFileRows == 3
\* The rows per chunk of the validator's reader; the script reads 100000 rows
\* per chunk (validate_standard_e2g_format.py line 232), scaled down here.
chunksize == 2
\* The most peaks of a CTCF peak file.
MaxPeaks == 2
\* The longest input path drawn, in characters.
MaxPathLen == 5

\* The cis-distance cutoff of line 76 (1e6).
Cutoff == 1000000

\* ----------------------------------------------------------------- helpers

Range(s) == {s[i] : i \in DOMAIN s}

RECURSIVE GCD(_, _)
GCD(a, b) == IF b = 0 THEN a ELSE GCD(b, a % b)

\* A float quotient n / d of two non-negative integers, d > 0.
Frac(n, d) == [num |-> n \div GCD(n, d), den |-> d \div GCD(n, d)]

\* The sum of w[i] over the indices i of I.
RECURSIVE SumOver(_, _)
SumOver(I, w) ==
    IF I = {} THEN 0
    ELSE LET i == CHOOSE x \in I : TRUE IN w[i] + SumOver(I \ {i}, w)

\* The float 0.0 (line 19, and out=np.zeros_like of line 65).
Zero == [num |-> 0, den |-> 1]

\* Sequences over S without repetition, of length 0..n.
RECURSIVE DistinctSeqs(_, _)
DistinctSeqs(S, n) ==
    IF n = 0 THEN {<<>>}
    ELSE LET shorter == DistinctSeqs(S, n - 1)
         IN  shorter \cup
             {Append(s, x) : <<s, x>> \in
                 {p \in shorter \X S : Len(p[1]) = n - 1 /\ p[2] \notin Range(p[1])}}

\* ------------------------------------------------------------------ inputs

Gene(id, sym, tss) == [GeneEnsemblID |-> id, GeneSymbol |-> sym, GeneTSS |-> tss]

Element(name, s, e) == [ElementName |-> name, ElementStart |-> s, ElementEnd |-> e]

\* One row of the pair table as read by line 18, Pinloop attached by line 19.
Row(chr, g, e) ==
    [ElementChr |-> chr,
     ElementName |-> e.ElementName, ElementStart |-> e.ElementStart,
     ElementEnd |-> e.ElementEnd,
     GeneEnsemblID |-> g.GeneEnsemblID, GeneSymbol |-> g.GeneSymbol,
     GeneTSS |-> g.GeneTSS,
     Pinloop |-> Zero]

\* One record of the loop catalog ChIA-PET_final.tsv (line 16).
Loop(chr, c1, c2, len, cnt) ==
    [chr |-> chr, center1 |-> c1, center2 |-> c2, loop_length |-> len, count |-> cnt]

gA == Gene("ENSG_A", "A", 100)
gB == Gene("ENSG_B", "B", 500)
gC == Gene("ENSG_C", "C", 900)
gD == Gene("ENSG_D", "D", 100)

eA == Element("eA", 0, 100)
eB == Element("eB", 500, 700)
eC == Element("eC", 900, 1100)
eD == Element("eD", 99, 102)

\* The rows generated pair tables are drawn from: chr1 and chr2 rows, in any
\* order, so a chromosome's genes and elements may first appear in any order.
RowPool ==
    {Row("chr1", gA, eA), Row("chr1", gB, eB), Row("chr1", gC, eC),
     Row("chr1", gC, eA), Row("chr2", gD, eD)}

\* The two loops of the spec's concrete scenarios.
Loop1 == Loop("chr1", 80, 950, 870, 4)
Loop2 == Loop("chr1", 850, 950, 100, 2)

\* The loops generated catalogs are drawn from: the scenario loops, Loop1
\* with its anchors reversed, a loop exactly at the cutoff, one just under
\* it, a loop whose anchors are gene TSSs, and a loop on chr2.
LoopPool ==
    {Loop1, Loop2,
     Loop("chr1", 950, 80, 870, 4),
     Loop("chr1", 80, 1000080, 1000000, 2),
     Loop("chr1", 80, 1000079, 999999, 1),
     Loop("chr1", 100, 500, 400, 1),
     Loop("chr2", 100, 101, 1, 3)}

\* The pair table of the concrete scenarios: every pair of the three chr1
\* genes and elements, genes by ascending TSS and elements by ascending center.
ScenarioPairs ==
    <<Row("chr1", gA, eA), Row("chr1", gA, eB), Row("chr1", gA, eC),
      Row("chr1", gB, eA), Row("chr1", gB, eB), Row("chr1", gB, eC),
      Row("chr1", gC, eA), Row("chr1", gC, eB), Row("chr1", gC, eC)>>

\* Input paths: "pairs.tsv", the path "./data/pairs.tsv", and every string
\* of at most MaxPathLen characters that ends in a name.
PlainPath == <<"pairs", ".", "tsv">>

DottedDirPath == <<".", "/", "data", "/", "pairs", ".", "tsv">>

PathChars == {".", "/", "pairs", "tsv"}

RECURSIVE Strings(_, _)
Strings(S, n) ==
    IF n = 0 THEN {<<>>}
    ELSE LET shorter == Strings(S, n - 1)
         IN  shorter \cup {Append(p, c) : p \in {q \in shorter : Len(q) = n - 1}, c \in S}

Paths ==
    {p \in Strings(PathChars, MaxPathLen) \ {<<>>} : p[Len(p)] \notin {".", "/"}}
        \cup {PlainPath, DottedDirPath}

\* Frames, loops and rows for the functions called on their own: the gene
\* and element frames may have no rows and need not come from the rows.
GeneFrames == DistinctSeqs({gA, gB, gC}, MaxFrame)

ElementFrames == DistinctSeqs({eA, eB, eC}, MaxFrame)

FrameCatalogs == DistinctSeqs({Loop1, Loop2, Loop("chr1", 950, 80, 870, 4)}, MaxLoops)

FrameTables == DistinctSeqs({Row("chr1", gA, eA), Row("chr1", gB, eB)}, MaxRows)

\* Rows in which ENSG_A comes with two TSS and eA with two intervals.
DuplicateTables ==
    DistinctSeqs({Row("chr1", gA, eA),
                  Row("chr1", Gene("ENSG_A", "A", 300), eB),
                  Row("chr1", gB, Element("eA", 10, 50)),
                  Row("chr1", gB, eB)}, MaxRows) \ {<<>>}

PairTables == (DistinctSeqs(RowPool, MaxRows) \ {<<>>}) \cup {ScenarioPairs}

Catalogs == DistinctSeqs(LoopPool, MaxLoops)

\* ------------------------------------------------------------------- state

VARIABLES
    chiapet,         \* line 16: the loop catalog
    pair_info,       \* lines 18-19: the pair table with its Pinloop column
    pc,              \* position in the script
    todo,            \* line 68: chromosomes still to process
    chrm,            \* line 68: the chromosome being processed
    genes_on_chr,    \* line 71
    elements_on_chr, \* line 72
    chiapet_on_chr,  \* line 73
    alloc_loops,     \* line 76: the loops with their four bin indices
    idx,             \* line 56: next loop of the accumulation (1-based)
    p_inloop,        \* line 54: gene x element weights
    prm_inloop,      \* line 55: per-gene totals
    pinloop,         \* line 65: the normalized matrix returned
    argv1,           \* line 18: sys.argv[1], the path of the pair table
    out_path,        \* line 83: the path the table is written to
    written,         \* lines 83-84: the table written
    \* validate_standard_e2g_format.py
    data_rows,        \* the data rows of the validated file, typed by DTYPES
    header_line_num,  \* line 204: the 1-based line of the column header
    chunk_i,          \* line 252: the index of the next chunk
    data_errors,      \* line 195
    data_warnings,    \* line 196
    reported,         \* line 231: reported_error_categories
    vpc,              \* position in validate_prediction_file
    overall_is_valid, \* line 439
    \* ctcf_chip/e2g_ctcf_chip.py
    candidate_df,        \* line 11
    ctcf_df,             \* line 12
    results,             \* line 15
    unique_chromosomes,  \* lines 18, 21: the chromosomes still to process
    result_df,           \* lines 55-62: the table written
    cpc                  \* position in main

pinloopVars == <<chiapet, pair_info, pc, todo, chrm, genes_on_chr, elements_on_chr,
                 chiapet_on_chr, alloc_loops, idx, p_inloop, prm_inloop, pinloop,
                 argv1, out_path, written>>

validatorVars == <<data_rows, header_line_num, chunk_i, data_errors, data_warnings,
                   reported, vpc, overall_is_valid>>

ctcfVars == <<candidate_df, ctcf_df, results, unique_chromosomes, result_df, cpc>>

vars == <<pinloopVars, validatorVars, ctcfVars>>

\* --------------------------------------------------------- pandas / numpy

\* Series.unique(): the distinct values in order of first appearance.
RECURSIVE Unique(_)
Unique(s) ==
    IF s = <<>> THEN <<>>
    ELSE LET front == Unique(SubSeq(s, 1, Len(s) - 1))
             last == s[Len(s)]
         IN  IF last \in Range(front) THEN front ELSE Append(front, last)

GeneColumns(row) == Gene(row.GeneEnsemblID, row.GeneSymbol, row.GeneTSS)

ElementColumns(row) == Element(row.ElementName, row.ElementStart, row.ElementEnd)

OnChr(c, row) == row.ElementChr = c

\* Line 68: the ElementChr column.
ChrColumn(pairs) == [i \in DOMAIN pairs |-> pairs[i].ElementChr]

\* Line 70: the rows of the chromosome, in order.
PairsOnChr(pairs, c) == SelectSeq(pairs, LAMBDA r : OnChr(c, r))

\* Line 71: the chromosome's gene triples, duplicates dropped, first
\* appearance kept, re-indexed from 0.  No sort is applied.
GenesOnChr(pairs, c) ==
    LET rows == PairsOnChr(pairs, c)
    IN  Unique([i \in DOMAIN rows |-> GeneColumns(rows[i])])

\* Line 72: the same for the element triples.
ElementsOnChr(pairs, c) ==
    LET rows == PairsOnChr(pairs, c)
    IN  Unique([i \in DOMAIN rows |-> ElementColumns(rows[i])])

\* The catalog taken whole, whatever the chromosome.
ChiapetOnAnyChr(loops, c) == loops

\* Line 73: the catalog's records of the chromosome.
ChiapetOnChr(loops, c) == SelectSeq(loops, LAMBDA l : l.chr = c)

\* The cutoff with the boundary on the wrong side (<= 1e6).
AtOrUnderCutoff(l) == l.loop_length <= Cutoff

\* Line 76: the cis-distance cutoff applied before binning.
UnderCutoff(l) == l.loop_length < Cutoff

\* The binary search of np.searchsorted (side='left') for one key between
\* min_idx and max_idx (0-based; a is a 1-based sequence).
RECURSIVE BinSearch(_, _, _, _)
BinSearch(a, key, min_idx, max_idx) ==
    IF min_idx < max_idx
    THEN LET mid_idx == min_idx + ((max_idx - min_idx) \div 2)
         IN  IF a[mid_idx + 1] < key
             THEN BinSearch(a, key, mid_idx + 1, max_idx)
             ELSE BinSearch(a, key, min_idx, mid_idx)
    ELSE min_idx

\* np.searchsorted(a, keys): one insertion index per key.  numpy searches the
\* keys in order and starts each search from the previous one's result: above
\* it when the key grew, in [0, previous + 1) otherwise.  On an ascending
\* array this is the leftmost insertion point of each key; on an array that
\* is not ascending it is whatever the bisection lands on.
RECURSIVE SearchSortedFrom(_, _, _, _)
SearchSortedFrom(a, keys, k, found) ==
    IF k > Len(keys) THEN found
    ELSE LET prev == IF k = 1 THEN Len(a) ELSE found[k - 1]
             grew == k > 1 /\ keys[k - 1] < keys[k]
             min_idx == IF grew THEN prev ELSE 0
             max_idx == IF grew THEN Len(a)
                        ELSE IF prev < Len(a) THEN prev + 1 ELSE Len(a)
         IN  SearchSortedFrom(a, keys, k + 1,
                 Append(found, BinSearch(a, keys[k], min_idx, max_idx)))

SearchSorted(a, keys) == SearchSortedFrom(a, keys, 1, <<>>)

\* Line 23: the element's center, doubled.
Center2(e) == e.ElementStart + e.ElementEnd

\* The searched arrays and the keys, doubled (lines 28-29, 39-40).
Tss2(df_rna) == [i \in DOMAIN df_rna |-> 2 * df_rna[i].GeneTSS]

Centers2(df_atac) == [i \in DOMAIN df_atac |-> Center2(df_atac[i])]

Keys1(df_chiapet) == [i \in DOMAIN df_chiapet |-> 2 * df_chiapet[i].center1]

Keys2(df_chiapet) == [i \in DOMAIN df_chiapet |-> 2 * df_chiapet[i].center2]

\* The guard left out: the axis is searched whatever its length.
Unguarded(df) == TRUE

\* Lines 26, 37: the guard len(df.index) != 0 of an axis.
NonEmpty(df) == Len(df) # 0

\* Lines 27-46: df.index[0] is read when the axis's guard passes; it is 0
\* after reset_index and raises IndexError on a frame without rows.
AllocRaises(df_rna, df_atac) ==
    \/ NonEmpty(df_atac) /\ Len(df_atac) = 0
    \/ NonEmpty(df_rna) /\ Len(df_rna) = 0

\* Lines 22-47: every loop gets its four bin indices; an axis with no rows
\* keeps 0.
alloc_pinloop(df_rna, df_atac, df_chiapet) ==
    LET atac_start == IF NonEmpty(df_atac)
                      THEN SearchSorted(Centers2(df_atac), Keys1(df_chiapet))
                      ELSE [i \in DOMAIN df_chiapet |-> 0]
        atac_end == IF NonEmpty(df_atac)
                    THEN SearchSorted(Centers2(df_atac), Keys2(df_chiapet))
                    ELSE [i \in DOMAIN df_chiapet |-> 0]
        rnaseq_start == IF NonEmpty(df_rna)
                        THEN SearchSorted(Tss2(df_rna), Keys1(df_chiapet))
                        ELSE [i \in DOMAIN df_chiapet |-> 0]
        rnaseq_end == IF NonEmpty(df_rna)
                      THEN SearchSorted(Tss2(df_rna), Keys2(df_chiapet))
                      ELSE [i \in DOMAIN df_chiapet |-> 0]
    IN  [i \in DOMAIN df_chiapet |->
            [chr |-> df_chiapet[i].chr,
             center1 |-> df_chiapet[i].center1,
             center2 |-> df_chiapet[i].center2,
             loop_length |-> df_chiapet[i].loop_length,
             count |-> df_chiapet[i].count,
             atac_start |-> atac_start[i], atac_end |-> atac_end[i],
             rnaseq_start |-> rnaseq_start[i], rnaseq_end |-> rnaseq_end[i]]]

\* A slice that takes its end index too.
SliceClosed(start, end, n) == {k \in 0..(n - 1) : start <= k /\ k <= end}

\* A numpy slice start:end of an axis of length n: the ranks start..end-1.
Slice(start, end, n) == {k \in 0..(n - 1) : start <= k /\ k < end}

\* Lines 51-52, 57-60: the id dicts map 0..n (the axis index and one past
\* it) to themselves; dict.get gives None for any other id, and a slice
\* bound of None is the axis's start (as a start) or its end (as an end).
\* For an axis without rows np.max of the empty RangeIndex is NaN, the dict
\* is {NaN: 0} and no id is a key.
SliceStart(n, id) == IF n > 0 /\ id \in 0..n THEN id ELSE 0

SliceEnd(n, id) == IF n > 0 /\ id \in 0..n THEN id ELSE n

\* Totals that grow by count for every cell the loop reaches, not once.
AddToTotalsPerCell(T, loop, nG) ==
    [g \in 0..(nG - 1) |->
        IF loop.rnaseq_start <= g /\ g < loop.rnaseq_end /\ loop.atac_start < loop.atac_end
        THEN T[g] + loop.count * (loop.atac_end - loop.atac_start)
        ELSE T[g]]

\* Totals that count the loops covering a gene, 1 per loop, not their count.
AddToTotalsOnePerLoop(T, loop, nG) ==
    LET prm == Slice(SliceStart(nG, loop.rnaseq_start), SliceEnd(nG, loop.rnaseq_end), nG)
    IN  [g \in 0..(nG - 1) |-> IF g \in prm THEN T[g] + 1 ELSE T[g]]

\* Lines 57-63: one loop added to the per-gene totals.
AddToTotals(T, loop, nG) ==
    LET prm == Slice(SliceStart(nG, loop.rnaseq_start), SliceEnd(nG, loop.rnaseq_end), nG)
    IN  [g \in 0..(nG - 1) |-> IF g \in prm THEN T[g] + loop.count ELSE T[g]]

\* Weights added along the whole row, the element slice forgotten.
AddToMatrixWholeRow(P, loop, nG, nE) ==
    [g \in 0..(nG - 1) |->
        [e \in 0..(nE - 1) |->
            IF loop.rnaseq_start <= g /\ g < loop.rnaseq_end
            THEN P[g][e] + loop.count ELSE P[g][e]]]

\* Lines 57-63: one loop added to the weight matrix.
AddToMatrix(P, loop, nG, nE) ==
    LET prm == Slice(SliceStart(nG, loop.rnaseq_start), SliceEnd(nG, loop.rnaseq_end), nG)
        enh == Slice(SliceStart(nE, loop.atac_start), SliceEnd(nE, loop.atac_end), nE)
    IN  [g \in 0..(nG - 1) |->
            [e \in 0..(nE - 1) |->
                IF g \in prm /\ e \in enh THEN P[g][e] + loop.count ELSE P[g][e]]]

\* The float NaN of 0.0 / 0.0.
NaN == [num |-> 0, den |-> 0]

\* A division without the where= mask: a zero total gives NaN.
NormalizeUnguarded(P, T, nG, nE) ==
    [g \in 0..(nG - 1) |->
        [e \in 0..(nE - 1) |-> IF T[g] # 0 THEN Frac(P[g][e], T[g]) ELSE NaN]]

\* A division by the row's own sum instead of the gene total.
NormalizeByRowSum(P, T, nG, nE) ==
    [g \in 0..(nG - 1) |->
        [e \in 0..(nE - 1) |->
            IF SumOver(0..(nE - 1), P[g]) # 0
            THEN Frac(P[g][e], SumOver(0..(nE - 1), P[g]))
            ELSE Zero]]

\* Line 65: np.divide(p_inloop, prm_inloop[:, None], out=zeros, where= != 0).
Normalize(P, T, nG, nE) ==
    [g \in 0..(nG - 1) |->
        [e \in 0..(nE - 1) |-> IF T[g] # 0 THEN Frac(P[g][e], T[g]) ELSE Zero]]

\* Line 79: the rows (elements) and columns (genes) of lookup matching a
\* label, as 0-based ranks.
ElementRanks(elements, name) ==
    {i - 1 : i \in {j \in DOMAIN elements : elements[j].ElementName = name}}

GeneRanks(genes, id) ==
    {i - 1 : i \in {j \in DOMAIN genes : genes[j].GeneEnsemblID = id}}

\* A lookup that hands out 0.0 for a label it does not have.
IsPresentOrDefault(genes, elements, row) == TRUE

\* Line 81: lookup.loc[r, c] finds its labels: the element name among the
\* row labels and the gene id among the column labels.
IsPresent(genes, elements, row) ==
    /\ ElementRanks(elements, row.ElementName) # {}
    /\ GeneRanks(genes, row.GeneEnsemblID) # {}

\* Line 81: lookup.loc[r, c] is a scalar when each label names one line of
\* the transposed matrix.
IsScalar(genes, elements, row) ==
    /\ Cardinality(ElementRanks(elements, row.ElementName)) = 1
    /\ Cardinality(GeneRanks(genes, row.GeneEnsemblID)) = 1

\* The matrix read without the transpose of line 78: the element's rank
\* picks the gene line.
LookupLocSwapped(M, genes, elements, row) ==
    LET e == CHOOSE x \in ElementRanks(elements, row.ElementName) : TRUE
        g == CHOOSE x \in GeneRanks(genes, row.GeneEnsemblID) : TRUE
    IN  IF e \in DOMAIN M /\ g \in DOMAIN M[e] THEN M[e][g] ELSE NaN

\* Lines 78-81: lookup is the transposed matrix labelled by element name
\* (rows) and gene id (columns); lookup.loc[r, c] is the cell of gene c's
\* line and element r's column of the matrix p_inloop_dense returned.
LookupLoc(M, genes, elements, row) ==
    LET e == CHOOSE x \in ElementRanks(elements, row.ElementName) : TRUE
        g == CHOOSE x \in GeneRanks(genes, row.GeneEnsemblID) : TRUE
    IN  M[g][e]

\* An assignment that keeps the chromosome's rows only, as if pairs_on_chr
\* were annotated and kept in place of the table.
AssignPinloopChrRows(pairs, c, M, genes, elements) ==
    LET rows == PairsOnChr(pairs, c)
    IN  [i \in DOMAIN rows |->
            [rows[i] EXCEPT !.Pinloop = LookupLoc(M, genes, elements, rows[i])]]

\* An assignment to the whole column: the rows of the other chromosomes are
\* put back to 0.0.
AssignPinloopWholeColumn(pairs, c, M, genes, elements) ==
    [i \in DOMAIN pairs |->
        IF OnChr(c, pairs[i])
        THEN [pairs[i] EXCEPT !.Pinloop = LookupLoc(M, genes, elements, pairs[i])]
        ELSE [pairs[i] EXCEPT !.Pinloop = Zero]]

\* A cell holding a Series or a frame, not a number.
SeriesCell == [num |-> 0, den |-> 0, series |-> TRUE]

\* Line 81 when some lookup is not a scalar and the assignment goes through:
\* the rows whose lookup is a scalar get it, the others an object.
AssignNonScalar(pairs, c, M, genes, elements) ==
    [i \in DOMAIN pairs |->
        IF ~OnChr(c, pairs[i]) THEN pairs[i]
        ELSE IF IsScalar(genes, elements, pairs[i])
             THEN [pairs[i] EXCEPT !.Pinloop = LookupLoc(M, genes, elements, pairs[i])]
             ELSE [pairs[i] EXCEPT !.Pinloop = SeriesCell]]

\* Line 81: the Pinloop column of the chromosome's rows overwritten.
AssignPinloop(pairs, c, M, genes, elements) ==
    [i \in DOMAIN pairs |->
        IF OnChr(c, pairs[i])
        THEN [pairs[i] EXCEPT !.Pinloop = LookupLoc(M, genes, elements, pairs[i])]
        ELSE pairs[i]]

\* A path is a sequence of characters; "pairs", "data" and "tsv" stand for
\* runs of characters other than "." and "/".
Suffix == "_pinloop.tsv.gz"

\* Line 83: str.split(".")[0], the characters before the first ".".
RECURSIVE BeforeFirstDot(_)
BeforeFirstDot(p) ==
    IF p = <<>> \/ Head(p) = "." THEN <<>>
    ELSE <<Head(p)>> \o BeforeFirstDot(Tail(p))

\* Line 83: sys.argv[1].split(".")[0] + "_pinloop.tsv.gz".
OutputPath(p) == Append(BeforeFirstDot(p), Suffix)

\* ----------------------------------------------------------------- actions

\* The CTCF script not started.
CtcfIdle ==
    /\ candidate_df = <<>>
    /\ ctcf_df = <<>>
    /\ results = <<>>
    /\ unique_chromosomes = <<>>
    /\ result_df = <<>>
    /\ cpc = "idle"

\* The validator not started.
ValidatorIdle ==
    /\ data_rows = <<>>
    /\ header_line_num = 1
    /\ chunk_i = 0
    /\ data_errors = <<>>
    /\ data_warnings = <<>>
    /\ reported = {}
    /\ vpc = "idle"
    /\ overall_is_valid = FALSE

\* Lines 15-19: both tables read, Pinloop = 0.0 on every row.
Init ==
    /\ chiapet \in Catalogs
    /\ pair_info \in PairTables
    /\ pc = "for"
    /\ todo = Unique(ChrColumn(pair_info))
    /\ chrm = ""
    /\ genes_on_chr = <<>>
    /\ elements_on_chr = <<>>
    /\ chiapet_on_chr = <<>>
    /\ alloc_loops = <<>>
    /\ idx = 1
    /\ p_inloop = <<>>
    /\ prm_inloop = <<>>
    /\ pinloop = <<>>
    /\ argv1 = PlainPath
    /\ out_path = <<>>
    /\ written = <<>>
    /\ ValidatorIdle
    /\ CtcfIdle

\* Lines 68-73: the next chromosome and its genes, elements and loops.
Partition ==
    /\ pc = "for"
    /\ todo # <<>>
    /\ chrm' = Head(todo)
    /\ todo' = Tail(todo)
    /\ genes_on_chr' = GenesOnChr(pair_info, Head(todo))
    /\ elements_on_chr' = ElementsOnChr(pair_info, Head(todo))
    /\ chiapet_on_chr' = ChiapetOnChr(chiapet, Head(todo))
    /\ pc' = "alloc"
    /\ UNCHANGED <<chiapet, pair_info, alloc_loops, idx, p_inloop, prm_inloop, pinloop>>
    /\ UNCHANGED <<argv1, out_path, written, validatorVars, ctcfVars>>

\* Line 76: the loops under the cutoff are binned; an IndexError stops
\* the script.
AllocPinloop ==
    /\ pc = "alloc"
    /\ IF AllocRaises(genes_on_chr, elements_on_chr)
       THEN /\ alloc_loops' = alloc_loops
            /\ pc' = "IndexError"
       ELSE /\ alloc_loops' = alloc_pinloop(genes_on_chr, elements_on_chr,
                                            SelectSeq(chiapet_on_chr, UnderCutoff))
            /\ pc' = "dense"
    /\ UNCHANGED <<chiapet, pair_info, todo, chrm, genes_on_chr, elements_on_chr,
                   chiapet_on_chr, idx, p_inloop, prm_inloop, pinloop>>
    /\ UNCHANGED <<argv1, out_path, written, validatorVars, ctcfVars>>

\* Lines 50-55: p_inloop_dense entered, matrix and totals zeroed.
DenseBegin ==
    /\ pc = "dense"
    /\ p_inloop' = [g \in 0..(Len(genes_on_chr) - 1) |->
                        [e \in 0..(Len(elements_on_chr) - 1) |-> 0]]
    /\ prm_inloop' = [g \in 0..(Len(genes_on_chr) - 1) |-> 0]
    /\ idx' = 1
    /\ pc' = "iter"
    /\ UNCHANGED <<chiapet, pair_info, todo, chrm, genes_on_chr, elements_on_chr,
                   chiapet_on_chr, alloc_loops, pinloop>>
    /\ UNCHANGED <<argv1, out_path, written, validatorVars, ctcfVars>>

\* Lines 56-63: one iteration of the loop over the binned loops.
DenseLoop ==
    /\ pc = "iter"
    /\ idx <= Len(alloc_loops)
    /\ prm_inloop' = AddToTotals(prm_inloop, alloc_loops[idx], Len(genes_on_chr))
    /\ p_inloop' = AddToMatrix(p_inloop, alloc_loops[idx],
                               Len(genes_on_chr), Len(elements_on_chr))
    /\ idx' = idx + 1
    /\ UNCHANGED <<chiapet, pair_info, pc, todo, chrm, genes_on_chr, elements_on_chr,
                   chiapet_on_chr, alloc_loops, pinloop>>
    /\ UNCHANGED <<argv1, out_path, written, validatorVars, ctcfVars>>

\* Line 65: the loop is over, the normalized matrix is returned.
DenseReturn ==
    /\ pc = "iter"
    /\ idx > Len(alloc_loops)
    /\ pinloop' = Normalize(p_inloop, prm_inloop,
                            Len(genes_on_chr), Len(elements_on_chr))
    /\ pc' = "assign"
    /\ UNCHANGED <<chiapet, pair_info, todo, chrm, genes_on_chr, elements_on_chr,
                   chiapet_on_chr, alloc_loops, idx, p_inloop, prm_inloop>>
    /\ UNCHANGED <<argv1, out_path, written, validatorVars, ctcfVars>>

\* Lines 78-81: the lookup is read for every row of the chromosome and the
\* Pinloop column written; a label the lookup does not have raises KeyError.
\* A label that names several lines makes lookup.loc return a Series or a
\* frame: the list assigned at line 81 then holds objects that are not
\* numbers, and the assignment either raises (the list does not fit the
\* column) or stores the objects in the cells, depending on the shapes and
\* on the numpy and pandas at hand.
Annotate ==
    /\ pc = "assign"
    /\ IF \E i \in DOMAIN pair_info :
              OnChr(chrm, pair_info[i]) /\
                  ~IsPresent(genes_on_chr, elements_on_chr, pair_info[i])
       THEN /\ pair_info' = pair_info
            /\ pc' = "KeyError"
       ELSE IF \A i \in DOMAIN pair_info :
                   OnChr(chrm, pair_info[i]) =>
                       IsScalar(genes_on_chr, elements_on_chr, pair_info[i])
            THEN /\ pair_info' = AssignPinloop(pair_info, chrm, pinloop,
                                               genes_on_chr, elements_on_chr)
                 /\ pc' = "for"
            ELSE \/ /\ pair_info' = pair_info
                    /\ pc' = "error"
                 \/ /\ pair_info' = AssignNonScalar(pair_info, chrm, pinloop,
                                                     genes_on_chr, elements_on_chr)
                    /\ pc' = "for"
    /\ UNCHANGED <<chiapet, todo, chrm, genes_on_chr, elements_on_chr,
                   chiapet_on_chr, alloc_loops, idx, p_inloop, prm_inloop, pinloop>>
    /\ UNCHANGED <<argv1, out_path, written, validatorVars, ctcfVars>>

\* Lines 83-84: every chromosome done, the table is written.
WriteOutput ==
    /\ pc = "for"
    /\ todo = <<>>
    /\ out_path' = OutputPath(argv1)
    /\ written' = pair_info
    /\ pc' = "done"
    /\ UNCHANGED <<chiapet, pair_info, todo, chrm, genes_on_chr, elements_on_chr,
                   chiapet_on_chr, alloc_loops, idx, p_inloop, prm_inloop, pinloop>>
    /\ UNCHANGED <<argv1, validatorVars, ctcfVars>>

Next ==
    \/ Partition
    \/ AllocPinloop
    \/ DenseBegin
    \/ DenseLoop
    \/ DenseReturn
    \/ Annotate
    \/ WriteOutput

Spec == Init /\ [][Next]_vars

\* Lines 68-73 with the chromosomes of line 68 taken in any order.
RECURSIVE Without(_, _)
Without(s, x) ==
    IF s = <<>> THEN <<>>
    ELSE IF Head(s) = x THEN Tail(s) ELSE <<Head(s)>> \o Without(Tail(s), x)

PartitionAnyOrder ==
    /\ pc = "for"
    /\ \E c \in Range(todo) :
          /\ chrm' = c
          /\ todo' = Without(todo, c)
          /\ genes_on_chr' = GenesOnChr(pair_info, c)
          /\ elements_on_chr' = ElementsOnChr(pair_info, c)
          /\ chiapet_on_chr' = ChiapetOnChr(chiapet, c)
    /\ pc' = "alloc"
    /\ UNCHANGED <<chiapet, pair_info, alloc_loops, idx, p_inloop, prm_inloop, pinloop>>
    /\ UNCHANGED <<argv1, out_path, written, validatorVars, ctcfVars>>

NextAnyOrder ==
    \/ PartitionAnyOrder
    \/ AllocPinloop
    \/ DenseBegin
    \/ DenseLoop
    \/ DenseReturn
    \/ Annotate
    \/ WriteOutput

SpecAnyOrder == Init /\ [][NextAnyOrder]_vars

\* The script run on tables that give one gene id two TSS or one element
\* name two intervals.
InitDuplicates ==
    /\ chiapet \in FrameCatalogs
    /\ pair_info \in DuplicateTables
    /\ pc = "for"
    /\ todo = Unique(ChrColumn(pair_info))
    /\ chrm = ""
    /\ genes_on_chr = <<>>
    /\ elements_on_chr = <<>>
    /\ chiapet_on_chr = <<>>
    /\ alloc_loops = <<>>
    /\ idx = 1
    /\ p_inloop = <<>>
    /\ prm_inloop = <<>>
    /\ pinloop = <<>>
    /\ argv1 = PlainPath
    /\ out_path = <<>>
    /\ written = <<>>
    /\ ValidatorIdle
    /\ CtcfIdle

SpecDuplicates == InitDuplicates /\ [][Next]_vars

\* The script run on a one-row table read from any input path.
InitNaming ==
    /\ chiapet = <<Loop1>>
    /\ pair_info = <<Row("chr1", gA, eA)>>
    /\ pc = "for"
    /\ todo = Unique(ChrColumn(pair_info))
    /\ chrm = ""
    /\ genes_on_chr = <<>>
    /\ elements_on_chr = <<>>
    /\ chiapet_on_chr = <<>>
    /\ alloc_loops = <<>>
    /\ idx = 1
    /\ p_inloop = <<>>
    /\ prm_inloop = <<>>
    /\ pinloop = <<>>
    /\ argv1 \in Paths
    /\ out_path = <<>>
    /\ written = <<>>
    /\ ValidatorIdle
    /\ CtcfIdle

SpecNaming == InitNaming /\ [][Next]_vars

\* Lines 76-81 on frames of any size: alloc_pinloop, p_inloop_dense and the
\* lookup applied to gene and element frames, loops and rows drawn
\* independently of each other.
InitFrames ==
    /\ chiapet_on_chr \in FrameCatalogs
    /\ chiapet = chiapet_on_chr
    /\ pair_info \in FrameTables
    /\ genes_on_chr \in GeneFrames
    /\ elements_on_chr \in ElementFrames
    /\ pc = "alloc"
    /\ todo = <<>>
    /\ chrm = "chr1"
    /\ alloc_loops = <<>>
    /\ idx = 1
    /\ p_inloop = <<>>
    /\ prm_inloop = <<>>
    /\ pinloop = <<>>
    /\ argv1 = PlainPath
    /\ out_path = <<>>
    /\ written = <<>>
    /\ ValidatorIdle
    /\ CtcfIdle

NextFrames ==
    \/ AllocPinloop
    \/ DenseBegin
    \/ DenseLoop
    \/ DenseReturn
    \/ Annotate

SpecFrames == InitFrames /\ [][NextFrames]_vars

\* ------------------------------------- validate_standard_e2g_format.py

\* A cell is {} when blank (null) and {v} when it holds v.
IsNull(cell) == cell = {}

DataRow(chr, start, end, name, class, symbol, id, tss, sample, score) ==
    [ElementChr |-> chr, ElementStart |-> start, ElementEnd |-> end,
     ElementName |-> name, ElementClass |-> class, GeneSymbol |-> symbol,
     GeneEnsemblID |-> id, GeneTSS |-> tss, SampleSummaryShort |-> sample,
     Score |-> score]

\* A row without fault and rows with one fault each.
GoodRow ==
    DataRow({"chr1"}, {10}, {20}, {"e1"}, {"promoter"}, {"MYC"},
            {"ENSG00000136997"}, {100}, {"K562"}, {1})

FaultyRows ==
    {[GoodRow EXCEPT !.ElementChr = {"1"}],
     [GoodRow EXCEPT !.ElementStart = {}],
     [GoodRow EXCEPT !.ElementEnd = {-1}],
     [GoodRow EXCEPT !.ElementName = {" "}],
     [GoodRow EXCEPT !.ElementClass = {"enhancer"}],
     [GoodRow EXCEPT !.GeneEnsemblID = {"MYC"}],
     [GoodRow EXCEPT !.GeneTSS = {-1}],
     [GoodRow EXCEPT !.GeneTSS = {}],
     [GoodRow EXCEPT !.Score = {}]}

DataFiles == Strings(FaultyRows \cup {GoodRow}, MaxFileRows) \ {<<>>}

\* Line 30: CHR_REGEX, chr1..chr22, chrX, chrY, chrM.
MatchesChr(v) ==
    v \in {"chr1", "chr2", "chr3", "chr4", "chr5", "chr6", "chr7", "chr8",
           "chr9", "chr10", "chr11", "chr12", "chr13", "chr14", "chr15",
           "chr16", "chr17", "chr18", "chr19", "chr20", "chr21", "chr22",
           "chrX", "chrY", "chrM"}

\* Line 33: ENSEMBL_ID_REGEX, on the ids drawn.
MatchesEnsembl(v) == v \in {"ENSG00000136997", "ENST00000384233.3"}

\* Line 109: str.strip().str.len() == 0, on the strings drawn.
IsBlank(v) == v \in {"", " "}

\* Lines 36, 122: str.lower().isin(ALLOWED_ELEMENT_CLASSES), on the classes drawn.
IsAllowedClass(v) == v \in {"promoter", "genic", "intergenic", "Promoter"}

\* Lines 190, 420: validate_prediction_file calls _check_data_rows without
\* check_all_rows, which is then False.
check_all_rows == FALSE

\* The 1-based positions in data_rows of the rows of chunk i; the row at
\* position k has the index label k - 1 in every chunk.
Chunk(i) == {k \in DOMAIN data_rows : i * chunksize < k /\ k <= (i + 1) * chunksize}

\* Line 253.
ChunkStartRow(i) == header_line_num + (i * chunksize) + 1

Smallest(S) == CHOOSE x \in S : \A y \in S : x <= y

\* A helper's report: the first bad row of a category not reported yet, at
\* line = start_row + row.name.
Report(category, bad, i, seen) ==
    IF category \notin seen /\ bad # {}
    THEN <<[category |-> category, line |-> ChunkStartRow(i) + (Smallest(bad) - 1)]>>
    ELSE <<>>

\* Lines 65-78.
BadChr(i) ==
    {k \in Chunk(i) : ~\E v \in data_rows[k].ElementChr : MatchesChr(v)}

\* Lines 80-101.
NullIn(i, col) == {k \in Chunk(i) : IsNull(data_rows[k][col])}

NegativeIn(i, col) == {k \in Chunk(i) : \E v \in data_rows[k][col] : v < 0}

\* Lines 103-115.
BlankIn(i, col) ==
    {k \in Chunk(i) : IsNull(data_rows[k][col]) \/ \E v \in data_rows[k][col] : IsBlank(v)}

\* Lines 117-130.
UnknownClass(i) ==
    {k \in Chunk(i) : \E v \in data_rows[k].ElementClass : ~IsAllowedClass(v)}

\* Lines 132-145.
BadEnsembl(i) ==
    {k \in Chunk(i) : \E v \in data_rows[k].GeneEnsemblID : ~MatchesEnsembl(v)}

\* Line 152: chunk[chunk['GeneTSS'].dropna() < 0] indexes the chunk with a
\* boolean Series that lacks the rows dropna removed; pandas raises
\* IndexingError when the chunk has a blank GeneTSS.
TssRaises(i, seen) == "GeneTSS_negative" \notin seen /\ NullIn(i, "GeneTSS") # {}

\* Lines 256-268: the errors of the helpers called before the GeneTSS ones.
ErrorsBeforeTss(i, seen) ==
    Report("ElementChr", BadChr(i), i, seen)
    \o Report("ElementStart_nan", NullIn(i, "ElementStart"), i, seen)
    \o Report("ElementStart_value", NegativeIn(i, "ElementStart"), i, seen)
    \o Report("ElementEnd_nan", NullIn(i, "ElementEnd"), i, seen)
    \o Report("ElementEnd_value", NegativeIn(i, "ElementEnd"), i, seen)
    \o Report("ElementName", BlankIn(i, "ElementName"), i, seen)
    \o Report("GeneSymbol", BlankIn(i, "GeneSymbol"), i, seen)
    \o Report("SampleSummaryShort", BlankIn(i, "SampleSummaryShort"), i, seen)
    \o Report("GeneEnsemblID", BadEnsembl(i), i, seen)

\* Lines 256-286, 295-296: the errors chunk i adds; the exception of line 152
\* ends the loop with one more error.
ChunkErrors(i, seen) ==
    IF TssRaises(i, seen)
    THEN Append(ErrorsBeforeTss(i, seen), [category |-> "unexpected", line |-> 0])
    ELSE ErrorsBeforeTss(i, seen)
         \o Report("GeneTSS_negative", NegativeIn(i, "GeneTSS"), i, seen)
         \o Report("Score", NullIn(i, "Score"), i, seen)

\* Lines 270-282: the warnings chunk i adds.
ChunkWarnings(i, seen) ==
    Report("ElementClass", UnknownClass(i), i, seen)
    \o (IF TssRaises(i, seen)
           \/ "GeneTSS_negative" \in seen
           \/ NegativeIn(i, "GeneTSS") # {}
        THEN <<>>
        ELSE Report("GeneTSS_blank_warn", NullIn(i, "GeneTSS"), i, seen))

Categories(messages) == {messages[k].category : k \in DOMAIN messages}

\* The pinloop script not started.
PinloopIdle ==
    /\ chiapet = <<>>
    /\ pair_info = <<>>
    /\ pc = "idle"
    /\ todo = <<>>
    /\ chrm = ""
    /\ genes_on_chr = <<>>
    /\ elements_on_chr = <<>>
    /\ chiapet_on_chr = <<>>
    /\ alloc_loops = <<>>
    /\ idx = 1
    /\ p_inloop = <<>>
    /\ prm_inloop = <<>>
    /\ pinloop = <<>>
    /\ argv1 = <<>>
    /\ out_path = <<>>
    /\ written = <<>>

\* Lines 195-247: validate_prediction_file on a file with every required
\* column, its header on line 1 or after two metadata lines.
InitValidator ==
    /\ data_rows \in DataFiles
    /\ header_line_num \in {1, 3}
    /\ chunk_i = 0
    /\ data_errors = <<>>
    /\ data_warnings = <<>>
    /\ reported = {}
    /\ vpc = "chunks"
    /\ overall_is_valid = FALSE
    /\ PinloopIdle
    /\ CtcfIdle

\* Lines 252-289, 295-296: one chunk through every helper, then the break.
CheckChunk ==
    /\ vpc = "chunks"
    /\ Chunk(chunk_i) # {}
    /\ data_errors' = data_errors \o ChunkErrors(chunk_i, reported)
    /\ data_warnings' = data_warnings \o ChunkWarnings(chunk_i, reported)
    /\ reported' = reported
                    \cup (Categories(ChunkErrors(chunk_i, reported)) \ {"unexpected"})
                    \cup Categories(ChunkWarnings(chunk_i, reported))
    /\ chunk_i' = chunk_i + 1
    /\ vpc' = IF \/ TssRaises(chunk_i, reported)
                 \/ (~check_all_rows /\ (data_errors' # <<>> \/ data_warnings' # <<>>))
              THEN "compile"
              ELSE "chunks"
    /\ UNCHANGED <<data_rows, header_line_num, overall_is_valid, pinloopVars, ctcfVars>>

\* Lines 252, 298: the reader has no chunk left.
ChunksExhausted ==
    /\ vpc = "chunks"
    /\ Chunk(chunk_i) = {}
    /\ vpc' = "compile"
    /\ UNCHANGED <<data_rows, header_line_num, chunk_i, data_errors, data_warnings,
                   reported, overall_is_valid, pinloopVars, ctcfVars>>

\* Lines 298, 422-454: the feedback compiled, the verdict returned.
ValidateReturn ==
    /\ vpc = "compile"
    /\ overall_is_valid' = (Len(data_errors) = 0)
    /\ vpc' = "returned"
    /\ UNCHANGED <<data_rows, header_line_num, chunk_i, data_errors, data_warnings,
                   reported, pinloopVars, ctcfVars>>

NextValidator ==
    \/ CheckChunk
    \/ ChunksExhausted
    \/ ValidateReturn

SpecValidator == InitValidator /\ [][NextValidator]_vars

\* ------------------------------------------- ctcf_chip/e2g_ctcf_chip.py

Candidate(chr, s, e, name, symbol) ==
    [ElementChr |-> chr, ElementStart |-> s, ElementEnd |-> e,
     ElementName |-> name, GeneSymbol |-> symbol]

Peak(chr, s, e) == [chr |-> chr, start |-> s, end |-> e]

\* Candidate rows: an element paired with two genes, a second element on
\* the chromosome and one on another chromosome.  Peaks: two over the first
\* element, one that only touches both chr1 elements, one on chr2.
CandidatePool ==
    {Candidate("chr1", 100, 200, "cA", "MYC"),
     Candidate("chr1", 100, 200, "cA", "PVT1"),
     Candidate("chr1", 300, 400, "cB", "MYC"),
     Candidate("chr2", 100, 200, "cC", "TP53")}

PeakPool ==
    {Peak("chr1", 50, 150), Peak("chr1", 180, 250), Peak("chr1", 200, 300),
     Peak("chr2", 150, 160)}

CandidateTables == DistinctSeqs(CandidatePool, MaxRows) \ {<<>>}

PeakFiles == DistinctSeqs(PeakPool, MaxPeaks)

\* Line 25: the four element columns of a candidate row.
CandidateColumns(row) ==
    [ElementChr |-> row.ElementChr, ElementStart |-> row.ElementStart,
     ElementEnd |-> row.ElementEnd, ElementName |-> row.ElementName]

\* Line 25: the chromosome's candidates, duplicates dropped.
UniqueCandidates(candidates, chr) ==
    LET rows == SelectSeq(candidates, LAMBDA r : r.ElementChr = chr)
    IN  Unique([k \in DOMAIN rows |-> CandidateColumns(rows[k])])

\* Line 28: the peaks of the chromosome.
CtcfChr(peaks, chr) == SelectSeq(peaks, LAMBDA p : p.chr = chr)

\* Lines 34-37: the score of one merged row, 1 when the element and the peak
\* overlap and 0 otherwise.
RowScore(cand, peak) ==
    IF cand.ElementStart < peak.end /\ cand.ElementEnd > peak.start THEN 1 ELSE 0

\* Lines 31-37: the scores of the rows the left merge pairs a candidate
\* with, one per peak of the chromosome; a candidate of a chromosome without
\* peaks has one row of blank peak columns, whose score is 0.
MergedScores(cand, peaks) ==
    IF peaks = <<>> THEN <<0>>
    ELSE [k \in DOMAIN peaks |-> RowScore(cand, peaks[k])]

RECURSIVE SumSeq(_)
SumSeq(q) == IF q = <<>> THEN 0 ELSE Head(q) + SumSeq(Tail(q))

\* Line 40: groupby('ElementName')['Score'].sum(), the sum of the scores of
\* every merged row carrying the name.
ScoreResults(cands, peaks, name) ==
    SumSeq([k \in DOMAIN cands |->
               IF cands[k].ElementName = name
               THEN SumSeq(MergedScores(cands[k], peaks))
               ELSE 0])

\* Lines 25-46: the chromosome's candidates with their Score column.
ScoredCandidates(candidates, peaks, chr) ==
    LET cands == UniqueCandidates(candidates, chr)
        on_chr == CtcfChr(peaks, chr)
    IN  [k \in DOMAIN cands |->
            [ElementChr |-> cands[k].ElementChr,
             ElementStart |-> cands[k].ElementStart,
             ElementEnd |-> cands[k].ElementEnd,
             ElementName |-> cands[k].ElementName,
             Score |-> ScoreResults(cands, on_chr, cands[k].ElementName)]]

\* Line 55: the rows a left merge on ElementName gives one candidate row, one
\* per row of the scored table carrying the name.
MergedRows(row, scored) ==
    LET hits == SelectSeq(scored, LAMBDA r : r.ElementName = row.ElementName)
    IN  [k \in DOMAIN hits |->
            [ElementChr |-> row.ElementChr, ElementStart |-> row.ElementStart,
             ElementEnd |-> row.ElementEnd, ElementName |-> row.ElementName,
             GeneSymbol |-> row.GeneSymbol, Score |-> hits[k].Score]]

\* Lines 55-58: the candidate table merged with the scores, in row order.
RECURSIVE MergeBack(_, _)
MergeBack(candidates, scored) ==
    IF candidates = <<>> THEN <<>>
    ELSE MergedRows(Head(candidates), scored) \o MergeBack(Tail(candidates), scored)

\* Lines 11-18: both files read.
InitCtcf ==
    /\ candidate_df \in CandidateTables
    /\ ctcf_df \in PeakFiles
    /\ results = <<>>
    /\ unique_chromosomes = Unique([k \in DOMAIN candidate_df |-> candidate_df[k].ElementChr])
    /\ result_df = <<>>
    /\ cpc = "for"
    /\ PinloopIdle
    /\ ValidatorIdle

\* Lines 21-49: one chromosome scored and appended to results.
ScoreChromosome ==
    /\ cpc = "for"
    /\ unique_chromosomes # <<>>
    /\ results' = results \o ScoredCandidates(candidate_df, ctcf_df, Head(unique_chromosomes))
    /\ unique_chromosomes' = Tail(unique_chromosomes)
    /\ UNCHANGED <<candidate_df, ctcf_df, result_df, cpc, pinloopVars, validatorVars>>

\* Lines 52-62: the scores merged back into the candidate table and written.
WriteScores ==
    /\ cpc = "for"
    /\ unique_chromosomes = <<>>
    /\ result_df' = MergeBack(candidate_df, results)
    /\ cpc' = "done"
    /\ UNCHANGED <<candidate_df, ctcf_df, results, unique_chromosomes,
                   pinloopVars, validatorVars>>

NextCtcf ==
    \/ ScoreChromosome
    \/ WriteScores

SpecCtcf == InitCtcf /\ [][NextCtcf]_vars

\* ------------------------------------------------------- claim vocabulary

\* The pair table as it was read: the Pinloop column back at 0.0.
InputPairs == [i \in DOMAIN pair_info |-> [pair_info[i] EXCEPT !.Pinloop = Zero]]

G == Len(genes_on_chr)

E == Len(elements_on_chr)

GeneRanksOnChr == 0..(G - 1)

ElementRanksOnChr == 0..(E - 1)

\* The accumulation loop of p_inloop_dense has consumed every binned loop.
Accumulated == (pc = "iter" /\ idx > Len(alloc_loops)) \/ pc = "assign"

\* The chromosome chrm has been annotated and nothing of the next one begun.
AnnotatedChr == pc \in {"for", "done"} /\ chrm # ""

\* The loop's gene range and element range cover the ranks.
CoversGene(l, g) == l.rnaseq_start <= g /\ g < l.rnaseq_end

CoversElement(l, e) == l.atac_start <= e /\ e < l.atac_end

\* The counts of the binned loops, by position.
Counts == [k \in DOMAIN alloc_loops |-> alloc_loops[k].count]

\* The rows of the pair table on chrm whose gene has rank g and element rank e.
RowsOf(g, e) ==
    {i \in DOMAIN pair_info :
        /\ pair_info[i].ElementChr = chrm
        /\ GeneColumns(pair_info[i]) = genes_on_chr[g + 1]
        /\ ElementColumns(pair_info[i]) = elements_on_chr[e + 1]}

Scenario1 == InputPairs = ScenarioPairs /\ chiapet = <<Loop1>>

Scenario2 == InputPairs = ScenarioPairs /\ chiapet = <<Loop1, Loop2>>

One == [num |-> 1, den |-> 1]

\* ------------------------------------------------------------------ claims

\* C1 as stated: in scenario 1 the loop is binned to rna [0,3) and atac
\* [0,3), all nine cells get +4, every gene total is 12 and every normalized
\* cell and Pinloop value is 1/3.
C1_AsStated ==
    (Scenario1 /\ pc = "done") =>
        /\ alloc_loops[1].rnaseq_start = 0 /\ alloc_loops[1].rnaseq_end = 3
        /\ alloc_loops[1].atac_start = 0 /\ alloc_loops[1].atac_end = 3
        /\ \A g \in 0..2 :
              /\ prm_inloop[g] = 12
              /\ \A e \in 0..2 : p_inloop[g][e] = 4 /\ pinloop[g][e] = Frac(1, 3)
        /\ \A i \in DOMAIN pair_info : pair_info[i].Pinloop = Frac(1, 3)

\* C1 amended: in scenario 1 the loop is binned to rna [0,3) and atac [1,2)
\* (center 50 is below anchor 80, center 1000 is not below anchor 950); only
\* the three cells of element rank 1 get +4, every gene total is 4, the
\* normalized cells of element rank 1 are 1 and all others 0, and each pair
\* row gets the value of its cell.
C1_Scenario1 ==
    (Scenario1 /\ pc = "done") =>
        /\ alloc_loops[1].rnaseq_start = 0 /\ alloc_loops[1].rnaseq_end = 3
        /\ alloc_loops[1].atac_start = 1 /\ alloc_loops[1].atac_end = 2
        /\ \A g \in 0..2 :
              /\ prm_inloop[g] = 4
              /\ \A e \in 0..2 :
                    /\ p_inloop[g][e] = IF e = 1 THEN 4 ELSE 0
                    /\ pinloop[g][e] = IF e = 1 THEN One ELSE Zero
        /\ \A i \in DOMAIN pair_info :
              pair_info[i].Pinloop =
                  IF pair_info[i].ElementName = "eB" THEN One ELSE Zero

C1_Witness ==
    /\ Scenario1 /\ pc = "done"
    /\ pair_info[2].Pinloop = One
    /\ prm_inloop = [g \in 0..2 |-> 4]

\* C2 as stated: in scenario 2 the second loop is binned to gene rank 2 and
\* element rank 2 only, gene rank 2's total is 14, normalized cell (2,2) is
\* 6/14 and cells (2,0) and (2,1) are 4/14.
C2_AsStated ==
    (Scenario2 /\ pc = "done") =>
        /\ alloc_loops[2].rnaseq_start = 2 /\ alloc_loops[2].rnaseq_end = 3
        /\ alloc_loops[2].atac_start = 2 /\ alloc_loops[2].atac_end = 3
        /\ prm_inloop[2] = 14
        /\ pinloop[2][2] = Frac(6, 14)
        /\ pinloop[2][0] = Frac(4, 14)
        /\ pinloop[2][1] = Frac(4, 14)

\* C2 amended: in scenario 2 the second loop is binned to gene rank 2 only
\* (rna [2,3)) and to no element (atac_start = atac_end = 2: center 1000 is
\* not below anchor 950); gene rank 2's total is 4 + 2 = 6, normalized cell
\* (2,1) is 4/6 and cells (2,0) and (2,2) are 0.
C2_Scenario2 ==
    (Scenario2 /\ pc = "done") =>
        /\ alloc_loops[2].rnaseq_start = 2 /\ alloc_loops[2].rnaseq_end = 3
        /\ alloc_loops[2].atac_start = 2 /\ alloc_loops[2].atac_end = 2
        /\ prm_inloop[2] = 6
        /\ pinloop[2][1] = Frac(4, 6)
        /\ pinloop[2][0] = Zero
        /\ pinloop[2][2] = Zero

C2_Witness ==
    /\ Scenario2 /\ pc = "done"
    /\ prm_inloop = (0 :> 4 @@ 1 :> 4 @@ 2 :> 6)
    /\ pair_info[8].Pinloop = [num |-> 2, den |-> 3]

\* C3: once every loop of the chromosome is accumulated, each cell P[g,e] is
\* the sum of count over exactly the loops whose gene range covers g and
\* whose element range covers e; a loop with an empty range adds to no cell.
C3_CellIsSumOfCoveringLoops ==
    Accumulated =>
        \A g \in GeneRanksOnChr : \A e \in ElementRanksOnChr :
            p_inloop[g][e] =
                SumOver({k \in DOMAIN alloc_loops :
                            /\ CoversGene(alloc_loops[k], g)
                            /\ CoversElement(alloc_loops[k], e)},
                        Counts)

\* Two loops accumulated, one with an empty element range and one that
\* reached a cell.
C3_Witness ==
    /\ Accumulated
    /\ Len(alloc_loops) = 2
    /\ \E k \in DOMAIN alloc_loops :
          /\ alloc_loops[k].atac_start = alloc_loops[k].atac_end
          /\ alloc_loops[k].rnaseq_start < alloc_loops[k].rnaseq_end
    /\ \E g \in GeneRanksOnChr : \E e \in ElementRanksOnChr : p_inloop[g][e] > 0

\* The binned loop as the catalog holds it.
Unbinned(l) == Loop(l.chr, l.center1, l.center2, l.loop_length, l.count)

\* Lines 54-63 as a whole: the totals and the weights after the first k loops.
RECURSIVE TotalsAfter(_, _, _)
TotalsAfter(loops, k, nG) ==
    IF k = 0 THEN [g \in 0..(nG - 1) |-> 0]
    ELSE AddToTotals(TotalsAfter(loops, k - 1, nG), loops[k], nG)

RECURSIVE MatrixAfter(_, _, _, _)
MatrixAfter(loops, k, nG, nE) ==
    IF k = 0 THEN [g \in 0..(nG - 1) |-> [e \in 0..(nE - 1) |-> 0]]
    ELSE AddToMatrix(MatrixAfter(loops, k - 1, nG, nE), loops[k], nG, nE)

\* Lines 50-65: p_inloop_dense on binned loops.
p_inloop_dense(nG, nE, loops) ==
    Normalize(MatrixAfter(loops, Len(loops), nG, nE),
              TotalsAfter(loops, Len(loops), nG), nG, nE)

\* Lines 70-81 for chromosome c with every given loop binned (no cutoff):
\* the pair table with c's rows annotated.
AnnotateChrUnfiltered(pairs, loops, c) ==
    LET genes == GenesOnChr(pairs, c)
        elements == ElementsOnChr(pairs, c)
        binned == alloc_pinloop(genes, elements, ChiapetOnChr(loops, c))
    IN  AssignPinloop(pairs, c, p_inloop_dense(Len(genes), Len(elements), binned),
                      genes, elements)

\* Lines 68-81 over the first k chromosomes, every given loop binned.
RECURSIVE RunUnfiltered(_, _, _, _)
RunUnfiltered(pairs, loops, chrs, k) ==
    IF k = 0 THEN pairs
    ELSE AnnotateChrUnfiltered(RunUnfiltered(pairs, loops, chrs, k - 1), loops, chrs[k])

\* The lowest 0-based index i with s[i] >= q, Len(s) when there is none.
LowerBound(s, q) ==
    IF \E i \in DOMAIN s : s[i] >= q
    THEN (CHOOSE i \in DOMAIN s : s[i] >= q /\ \A j \in 1..(i - 1) : s[j] < q) - 1
    ELSE Len(s)

IsAscending(s) == \A i \in DOMAIN s : \A j \in DOMAIN s : i < j => s[i] <= s[j]

Lower(a, b) == IF a <= b THEN a ELSE b

Higher(a, b) == IF a <= b THEN b ELSE a

\* The ranges of a loop read as unordered pairs of indices.
CoversGeneUnordered(l, g) ==
    Lower(l.rnaseq_start, l.rnaseq_end) <= g /\ g < Higher(l.rnaseq_start, l.rnaseq_end)

CoversElementUnordered(l, e) ==
    Lower(l.atac_start, l.atac_end) <= e /\ e < Higher(l.atac_start, l.atac_end)

\* The number of element ranks in the loop's element range.
ElementWidth(l) == Cardinality({e \in ElementRanksOnChr : CoversElement(l, e)})

RowSum(g) == SumOver(ElementRanksOnChr, p_inloop[g])

Normalized == pc = "assign" \/ AnnotatedChr

\* C4: a gene whose accumulated total is 0 has an all-zero normalized row and
\* every pair row with that gene gets Pinloop = 0.0 (a float zero, not NaN);
\* so does every row of a chromosome the loop catalog has no record of.
C4_ZeroTotalGivesZero ==
    /\ Normalized =>
          \A g \in GeneRanksOnChr :
              prm_inloop[g] = 0 => \A e \in ElementRanksOnChr : pinloop[g][e] = Zero
    /\ AnnotatedChr =>
          \A g \in GeneRanksOnChr : \A e \in ElementRanksOnChr :
              prm_inloop[g] = 0 => \A i \in RowsOf(g, e) : pair_info[i].Pinloop = Zero
    /\ pc = "done" =>
          \A i \in DOMAIN pair_info :
              (\A k \in DOMAIN chiapet : chiapet[k].chr # pair_info[i].ElementChr)
                  => pair_info[i].Pinloop = Zero

\* The table is done; its last chromosome has a gene without loop evidence
\* beside one with, and another chromosome is absent from the catalog.
C4_Witness ==
    /\ pc = "done"
    /\ \E g \in GeneRanksOnChr : \E e \in ElementRanksOnChr :
          prm_inloop[g] = 0 /\ RowsOf(g, e) # {}
    /\ \E g \in GeneRanksOnChr : prm_inloop[g] > 0
    /\ \E i \in DOMAIN pair_info :
          \A k \in DOMAIN chiapet : chiapet[k].chr # pair_info[i].ElementChr

\* C5: for every gene with a positive total, the value returned at (g,e) is
\* the quotient P[g,e] / T[g] of the accumulated weight and total.
C5_NormalizedIsPOverT ==
    Normalized =>
        \A g \in GeneRanksOnChr :
            prm_inloop[g] > 0 =>
                \A e \in ElementRanksOnChr :
                    /\ pinloop[g][e].den > 0
                    /\ pinloop[g][e].num * prm_inloop[g] = p_inloop[g][e] * pinloop[g][e].den

\* A cell holding a proper fraction of its gene's total.
C5_Witness ==
    /\ pc = "assign"
    /\ \E g \in GeneRanksOnChr : \E e \in ElementRanksOnChr :
          /\ 0 < p_inloop[g][e]
          /\ p_inloop[g][e] < prm_inloop[g]
          /\ pinloop[g][e] = [num |-> 2, den |-> 3]

\* C6: the loops binned are exactly the chromosome's loops with
\* loop_length < 1,000,000, and the finished table is the one the pipeline
\* without any cutoff produces from the catalog with every loop of
\* loop_length >= 1,000,000 removed.
C6_LongLoopsExcluded ==
    /\ pc \in {"dense", "iter", "assign"} =>
          [k \in DOMAIN alloc_loops |-> Unbinned(alloc_loops[k])] =
              SelectSeq(chiapet,
                        LAMBDA l : l.chr = chrm /\ ~(l.loop_length >= 1000000))
    /\ pc = "done" =>
          pair_info =
              LET short == SelectSeq(chiapet, LAMBDA l : ~(l.loop_length >= 1000000))
                  chrs == Unique(ChrColumn(InputPairs))
              IN  RunUnfiltered(InputPairs, short, chrs, Len(chrs))

\* A finished table whose catalog has a loop at the cutoff, on a chromosome
\* where a loop just under it gave a row a non-zero value.
C6_Witness ==
    /\ pc = "done"
    /\ \E k \in DOMAIN chiapet : chiapet[k].loop_length = 1000000 /\ chiapet[k].chr = chrm
    /\ \E k \in DOMAIN chiapet : chiapet[k].loop_length = 999999 /\ chiapet[k].chr = chrm
    /\ \E i \in DOMAIN pair_info :
          pair_info[i].ElementChr = chrm /\ pair_info[i].Pinloop # Zero

\* C7: the bin indices of a loop are an unordered range: once the loops are
\* accumulated, each total and each cell is the sum of count over the loops
\* whose (min, max) gene range and (min, max) element range cover it.
C7_AnchorOrderIrrelevant ==
    Accumulated =>
        \A g \in GeneRanksOnChr :
            /\ prm_inloop[g] =
                  SumOver({k \in DOMAIN alloc_loops :
                              CoversGeneUnordered(alloc_loops[k], g)}, Counts)
            /\ \A e \in ElementRanksOnChr :
                  p_inloop[g][e] =
                      SumOver({k \in DOMAIN alloc_loops :
                                  /\ CoversGeneUnordered(alloc_loops[k], g)
                                  /\ CoversElementUnordered(alloc_loops[k], e)}, Counts)

\* C8: when the search is applied, the gene array is ascending by GeneTSS
\* and the element array ascending by center.
C8_SortedWhenSearched ==
    pc = "alloc" =>
        /\ IsAscending(Tss2(genes_on_chr))
        /\ IsAscending(Centers2(elements_on_chr))

\* C9: every binned loop's four indices are the lower bounds of its two
\* anchors in the gene-TSS array and in the element-center array.
C9_BinsAreLowerBounds ==
    pc \in {"dense", "iter", "assign"} =>
        \A k \in DOMAIN alloc_loops :
            LET l == alloc_loops[k] IN
            /\ l.rnaseq_start = LowerBound(Tss2(genes_on_chr), 2 * l.center1)
            /\ l.rnaseq_end = LowerBound(Tss2(genes_on_chr), 2 * l.center2)
            /\ l.atac_start = LowerBound(Centers2(elements_on_chr), 2 * l.center1)
            /\ l.atac_end = LowerBound(Centers2(elements_on_chr), 2 * l.center2)

RankIn(frame, x) == (CHOOSE i \in DOMAIN frame : frame[i] = x) - 1

\* Lines 76-78 for chromosome c of a pair table and a catalog: the matrix
\* p_inloop_dense returns for the chromosome.
MatrixOfChr(pairs, loops, c) ==
    LET genes == GenesOnChr(pairs, c)
        elements == ElementsOnChr(pairs, c)
        binned == alloc_pinloop(genes, elements,
                                SelectSeq(ChiapetOnChr(loops, c), UnderCutoff))
    IN  p_inloop_dense(Len(genes), Len(elements), binned)

\* C11: every annotated row holds the normalized matrix entry of its
\* chromosome at (rank of its gene among the chromosome's genes, rank of its
\* element among the chromosome's elements): right after the chromosome is
\* annotated it is that cell of the matrix just returned, and in the
\* finished table it is that cell of the matrix of the row's own chromosome.
C11_PairAnnotation ==
    /\ AnnotatedChr =>
          \A i \in DOMAIN pair_info :
              pair_info[i].ElementChr = chrm =>
                  pair_info[i].Pinloop =
                      pinloop[RankIn(genes_on_chr, GeneColumns(pair_info[i]))]
                             [RankIn(elements_on_chr, ElementColumns(pair_info[i]))]
    /\ pc = "done" =>
          \A i \in DOMAIN pair_info :
              LET c == pair_info[i].ElementChr
              IN  pair_info[i].Pinloop =
                      MatrixOfChr(InputPairs, chiapet, c)
                          [RankIn(GenesOnChr(InputPairs, c), GeneColumns(pair_info[i]))]
                          [RankIn(ElementsOnChr(InputPairs, c), ElementColumns(pair_info[i]))]

\* A chromosome just annotated whose matrix is not symmetric at a row's
\* cell, and which has two rows holding different values.
C11_Witness ==
    /\ AnnotatedChr
    /\ \E i \in DOMAIN pair_info :
          /\ pair_info[i].ElementChr = chrm
          /\ LET g == RankIn(genes_on_chr, GeneColumns(pair_info[i]))
                 e == RankIn(elements_on_chr, ElementColumns(pair_info[i]))
             IN  /\ g # e
                 /\ e \in GeneRanksOnChr /\ g \in ElementRanksOnChr
                 /\ pinloop[g][e] # pinloop[e][g]
          /\ \E j \in DOMAIN pair_info :
                /\ pair_info[j].ElementChr = chrm
                /\ pair_info[j].Pinloop # pair_info[i].Pinloop

\* C12: a chromosome partition with no gene or no element never raises in
\* alloc_pinloop or p_inloop_dense: the axis's bin indices stay 0, the
\* matrix and the totals have no entry on the axis and none is updated, and
\* the matrix returned is empty along the axis.
C12_EmptyAxisGuard ==
    /\ pc # "IndexError"
    /\ (pc \in {"dense", "iter", "assign"} /\ G = 0) =>
          /\ \A k \in DOMAIN alloc_loops :
                alloc_loops[k].rnaseq_start = 0 /\ alloc_loops[k].rnaseq_end = 0
          /\ pc \in {"iter", "assign"} => p_inloop = <<>> /\ prm_inloop = <<>>
          /\ pc = "assign" => pinloop = <<>>
    /\ (pc \in {"dense", "iter", "assign"} /\ E = 0) =>
          /\ \A k \in DOMAIN alloc_loops :
                alloc_loops[k].atac_start = 0 /\ alloc_loops[k].atac_end = 0
          /\ pc \in {"iter", "assign"} => \A g \in GeneRanksOnChr : p_inloop[g] = <<>>
          /\ pc = "assign" => \A g \in GeneRanksOnChr : pinloop[g] = <<>>

\* The matrix returned for a frame with genes and no element, after loops
\* that raised a gene's total.
C12_Witness ==
    /\ pc = "assign"
    /\ E = 0
    /\ G > 0
    /\ alloc_loops # <<>>
    /\ \E g \in GeneRanksOnChr : prm_inloop[g] > 0

\* The rows of the chromosome being processed whose element name or gene id
\* is not a label of the chromosome's lookup.
MissingLocusRows ==
    {i \in DOMAIN pair_info :
        /\ pair_info[i].ElementChr = chrm
        /\ \/ \A k \in DOMAIN elements_on_chr :
                  elements_on_chr[k].ElementName # pair_info[i].ElementName
           \/ \A k \in DOMAIN genes_on_chr :
                  genes_on_chr[k].GeneEnsemblID # pair_info[i].GeneEnsemblID}

\* C13: when a row of the chromosome names an element or a gene the
\* chromosome's lookup does not have, the annotation stops with a KeyError:
\* it never completes, no row is given a value and nothing is written.
C13_MissingLocusFails ==
    (MissingLocusRows # {} /\ pc \notin {"alloc", "dense", "iter", "assign"}) =>
        /\ pc = "KeyError"
        /\ pair_info = InputPairs
        /\ written = <<>> /\ out_path = <<>>

\* The script stopped on a table with a row the lookup has, at a cell that
\* is not 0, and a row it does not have.
C13_Witness ==
    /\ pc = "KeyError"
    /\ MissingLocusRows # {}
    /\ \E i \in DOMAIN pair_info :
          /\ i \notin MissingLocusRows
          /\ LookupLoc(pinloop, genes_on_chr, elements_on_chr, pair_info[i]) # Zero

\* Lines 70-81 for chromosome c: the pair table with c's rows annotated.
AnnotateChr(pairs, loops, c) ==
    AssignPinloop(pairs, c, MatrixOfChr(pairs, loops, c),
                  GenesOnChr(pairs, c), ElementsOnChr(pairs, c))

\* Lines 68-81 over the first k chromosomes of chrs, in that order.
RECURSIVE Run(_, _, _, _)
Run(pairs, loops, chrs, k) ==
    IF k = 0 THEN pairs
    ELSE AnnotateChr(Run(pairs, loops, chrs, k - 1), loops, chrs[k])

\* The chromosomes in the order line 68 takes them.
CodeOrder == Unique(ChrColumn(InputPairs))

\* C14: whichever order the chromosomes are processed in, the finished and
\* written table is the one the script computes from the inputs in the order
\* of line 68: every row's Pinloop is a function of the inputs alone.
C14_OrderIndependent ==
    pc = "done" =>
        /\ pair_info = Run(InputPairs, chiapet, CodeOrder, Len(CodeOrder))
        /\ written = pair_info

\* A finished table with two chromosomes, each with a row that is not 0,
\* whose last processed chromosome is the first of line 68's order.
C14_Witness ==
    /\ pc = "done"
    /\ Len(CodeOrder) = 2
    /\ chrm = CodeOrder[1]
    /\ \A k \in DOMAIN CodeOrder :
          \E i \in DOMAIN pair_info :
              pair_info[i].ElementChr = CodeOrder[k] /\ pair_info[i].Pinloop # Zero

\* The columns of the pair table as it is read.
InputColumns ==
    {"ElementChr", "ElementName", "ElementStart", "ElementEnd",
     "GeneEnsemblID", "GeneSymbol", "GeneTSS"}

\* A table with its Pinloop column put to 0.0.
WithoutPinloop(pairs) == [i \in DOMAIN pairs |-> [pairs[i] EXCEPT !.Pinloop = Zero]]

\* C15: no step adds, drops or reorders a row or changes a column other
\* than Pinloop, and the table written is the table in memory: the input's
\* rows in their order with the input's columns and the Pinloop column.
C15_PassThrough ==
    /\ [][WithoutPinloop(pair_info') = WithoutPinloop(pair_info)]_vars
    /\ [](pc = "done" =>
            /\ written = pair_info
            /\ \A i \in DOMAIN written :
                  DOMAIN written[i] = InputColumns \cup {"Pinloop"})

\* A written table of rows on two chromosomes, one of them given a value.
C15_Witness ==
    /\ pc = "done"
    /\ \E i \in DOMAIN written : written[i].Pinloop # Zero
    /\ \E i \in DOMAIN written : \E j \in DOMAIN written :
          written[i].ElementChr # written[j].ElementChr

\* The largest member of a set of naturals, 0 for the empty set.
Largest(S) == IF S = {} THEN 0 ELSE CHOOSE x \in S : \A y \in S : y <= x

\* The positions of the "." that start a file extension: those of the last
\* path component that do not lead it.
ExtensionDots(p) ==
    LET last_slash == Largest({i \in DOMAIN p : p[i] = "/"})
    IN  {i \in DOMAIN p : p[i] = "." /\ i > last_slash + 1}

\* A path with its file extension removed.
Stem(p) ==
    IF ExtensionDots(p) = {} THEN p
    ELSE SubSeq(p, 1, Largest(ExtensionDots(p)) - 1)

\* C16: the table is written to the input path with its file extension
\* removed followed by "_pinloop.tsv.gz", whatever "." the path has in a
\* directory component or in the file name.
C16_OutputNaming ==
    pc = "done" => out_path = Append(Stem(argv1), Suffix)

\* The data rows with a data error: an ElementChr outside chr1..chr22,
\* chrX, chrY, chrM, a blank or negative coordinate, a blank required
\* string, a malformed GeneEnsemblID, a negative GeneTSS or a blank Score.
RowsWithDataError ==
    {k \in DOMAIN data_rows :
        \/ ~\E v \in data_rows[k].ElementChr : MatchesChr(v)
        \/ \E col \in {"ElementStart", "ElementEnd"} :
              IsNull(data_rows[k][col]) \/ \E v \in data_rows[k][col] : v < 0
        \/ \E col \in {"ElementName", "GeneSymbol", "SampleSummaryShort"} :
              IsNull(data_rows[k][col]) \/ \E v \in data_rows[k][col] : IsBlank(v)
        \/ \E v \in data_rows[k].GeneEnsemblID : ~MatchesEnsembl(v)
        \/ \E v \in data_rows[k].GeneTSS : v < 0
        \/ IsNull(data_rows[k].Score)}

\* C17: validate_prediction_file returns True exactly when no data row of
\* the file has a data error, in whichever chunk the row is.
C17_ValidIffNoDataError ==
    vpc = "returned" => (overall_is_valid <=> RowsWithDataError = {})

\* C18: once the loops are accumulated, every gene's total is the sum of
\* count over the loops whose gene range covers the gene, each loop counted
\* once whatever its element range.
C18_GeneTotals ==
    Accumulated =>
        \A g \in GeneRanksOnChr :
            prm_inloop[g] =
                SumOver({k \in DOMAIN alloc_loops :
                            alloc_loops[k].rnaseq_start <= g /\ g < alloc_loops[k].rnaseq_end},
                        Counts)

\* A gene whose total comes from two loops, one reaching no element and one
\* reaching more than one.
C18_Witness ==
    /\ Accumulated
    /\ \E g \in GeneRanksOnChr :
          /\ \E k \in DOMAIN alloc_loops :
                /\ CoversGene(alloc_loops[k], g)
                /\ alloc_loops[k].atac_start >= alloc_loops[k].atac_end
          /\ \E k \in DOMAIN alloc_loops :
                /\ CoversGene(alloc_loops[k], g)
                /\ alloc_loops[k].atac_end - alloc_loops[k].atac_start > 1
          /\ prm_inloop[g] > 0

\* The loops of the catalog on chromosome c.
LoopsOf(c) == SelectSeq(chiapet, LAMBDA l : l.chr = c)

\* The rows of the input table on chromosome c.
InputRowsOf(c) == SelectSeq(InputPairs, LAMBDA r : r.ElementChr = c)

\* C19: a step writes Pinloop only on rows of the chromosome being
\* processed, so no value of another chromosome is overwritten; while a
\* chromosome is processed its loop frame and binned loops hold only its
\* own loops; and the
\* finished values of a chromosome's rows are those the script computes from
\* that chromosome's rows and loops alone.
C19_ChromosomeIsolation ==
    /\ [][\A i \in DOMAIN pair_info :
             pair_info'[i] # pair_info[i] =>
                 pair_info[i].ElementChr = chrm /\ chrm' = chrm]_vars
    /\ [](/\ pc \in {"alloc", "dense", "iter", "assign"} =>
                \A k \in DOMAIN chiapet_on_chr : chiapet_on_chr[k].chr = chrm
          /\ pc \in {"dense", "iter", "assign"} =>
                \A k \in DOMAIN alloc_loops : alloc_loops[k].chr = chrm)
    /\ [](pc = "done" =>
            \A c \in Range(CodeOrder) :
                SelectSeq(pair_info, LAMBDA r : r.ElementChr = c) =
                    AnnotateChr(InputRowsOf(c), LoopsOf(c), c))

\* A finished table with rows on two chromosomes, a loop of each in the
\* catalog, and on each a row that is not 0.
C19_Witness ==
    /\ pc = "done"
    /\ Len(CodeOrder) = 2
    /\ chrm = CodeOrder[2]
    /\ \A k \in DOMAIN CodeOrder :
          /\ LoopsOf(CodeOrder[k]) # <<>>
          /\ \E i \in DOMAIN pair_info :
                pair_info[i].ElementChr = CodeOrder[k] /\ pair_info[i].Pinloop # Zero

\* The peaks of the file that overlap a written row's element on its
\* chromosome.
OverlappingPeaks(row) ==
    {k \in DOMAIN ctcf_df :
        /\ ctcf_df[k].chr = row.ElementChr
        /\ row.ElementStart < ctcf_df[k].end
        /\ row.ElementEnd > ctcf_df[k].start}

\* C20: every row the CTCF script writes has Score 1 when its element
\* overlaps at least one peak of its chromosome and 0 otherwise, however
\* many peaks it overlaps.
C20_ScoreIsBinary ==
    cpc = "done" =>
        \A k \in DOMAIN result_df :
            result_df[k].Score = IF OverlappingPeaks(result_df[k]) # {} THEN 1 ELSE 0

\* A value of the Pinloop column within [0, 1].
IsProbability(x) == x.den > 0 /\ 0 <= x.num /\ x.num <= x.den

\* C21: with non-negative counts, a cell of the weight matrix never exceeds
\* its gene's total, after any number of loops, and every Pinloop value of
\* the table, in memory and as written, lies in [0, 1].
C21_BoundedProbability ==
    /\ pc \in {"iter", "assign"} =>
          \A g \in GeneRanksOnChr : \A e \in ElementRanksOnChr :
              0 <= p_inloop[g][e] /\ p_inloop[g][e] <= prm_inloop[g]
    /\ \A i \in DOMAIN pair_info : IsProbability(pair_info[i].Pinloop)
    /\ \A i \in DOMAIN written : IsProbability(written[i].Pinloop)

\* A written table holding a value strictly between 0 and 1, a value of 1
\* and a value of 0, from loops whose counts are all non-negative.
C21_Witness ==
    /\ pc = "done"
    /\ \A k \in DOMAIN chiapet : chiapet[k].count >= 0
    /\ \E i \in DOMAIN written :
          0 < written[i].Pinloop.num /\ written[i].Pinloop.num < written[i].Pinloop.den
    /\ \E i \in DOMAIN written : written[i].Pinloop = One
    /\ \E i \in DOMAIN written : written[i].Pinloop = Zero

\* C22: on the chromosome being processed, the gene id of every row names
\* exactly one column of the lookup and its element name exactly one row, so
\* the lookup of every row is one scalar, also in a table that gives one
\* gene id two TSS or one element name two intervals.
C22_UniqueLookupKey ==
    pc = "assign" =>
        \A i \in DOMAIN pair_info :
            pair_info[i].ElementChr = chrm =>
                /\ Cardinality({k \in DOMAIN genes_on_chr :
                       genes_on_chr[k].GeneEnsemblID = pair_info[i].GeneEnsemblID}) = 1
                /\ Cardinality({k \in DOMAIN elements_on_chr :
                       elements_on_chr[k].ElementName = pair_info[i].ElementName}) = 1

\* The 1-based positions of the data rows at fault in a category a message
\* can name.
Offending(category) ==
    {k \in DOMAIN data_rows :
        LET row == data_rows[k]
        IN  \/ category = "ElementChr" /\ ~\E v \in row.ElementChr : MatchesChr(v)
            \/ category = "ElementStart_nan" /\ IsNull(row.ElementStart)
            \/ category = "ElementStart_value" /\ \E v \in row.ElementStart : v < 0
            \/ category = "ElementEnd_nan" /\ IsNull(row.ElementEnd)
            \/ category = "ElementEnd_value" /\ \E v \in row.ElementEnd : v < 0
            \/ category \in {"ElementName", "GeneSymbol", "SampleSummaryShort"}
                  /\ (IsNull(row[category]) \/ \E v \in row[category] : IsBlank(v))
            \/ category = "ElementClass" /\ \E v \in row.ElementClass : ~IsAllowedClass(v)
            \/ category = "GeneEnsemblID" /\ \E v \in row.GeneEnsemblID : ~MatchesEnsembl(v)
            \/ category = "GeneTSS_negative" /\ \E v \in row.GeneTSS : v < 0
            \/ category = "GeneTSS_blank_warn" /\ IsNull(row.GeneTSS)
            \/ category = "Score" /\ IsNull(row.Score)}

\* The messages that print a line number.
LineMessages ==
    {m \in Range(data_errors) \cup Range(data_warnings) : m.category # "unexpected"}

\* C23: the line number of every data error and warning is the file line of
\* a data row at fault in the message's category: the header's line plus 1
\* plus the row's zero-based position, in whichever chunk the row is.
C23_LineNumbers ==
    \A m \in LineMessages :
        \E k \in Offending(m.category) : m.line = header_line_num + 1 + (k - 1)

====
